---- MODULE Spec2Model ----
(***************************************************************************)
(* Model of infra/cifuzz/fuzz_target.py: the FuzzTarget class (fuzz,       *)
(* is_reproducible, check_reproducibility_and_regression, get_test_case,   *)
(* get_lastest_build_version, download_oss_fuzz_build,                     *)
(* download_latest_corpus) and download_and_unpack_zip.                    *)
(*                                                                         *)
(* The program is sequential.  `stack` is the call stack (one frame per    *)
(* active function, with its position), `loc` the local variables of the   *)
(* active functions, `files`/`mode` the file system, `child` the process   *)
(* started by subprocess.Popen.  The collaborators (docker, the network,   *)
(* the archive) answer nondeterministically.                               *)
(***************************************************************************)
EXTENDS Integers, Sequences, FiniteSets, TLC

\* ---------------------------------------------------------------- constants
REPRODUCE_ATTEMPTS == 10
BUFFER_TIME == 10

\* ------------------------------------------------------------------- bounds
\* Longest diagnostic text (in tokens) the fuzzing process writes to stderr.
MaxErrLen == 2
\* Largest duration (seconds) a FuzzTarget is constructed with.
MaxDuration == 1
\* Longest text (in tokens) a caller hands to get_test_case.
MaxTextLen == 3
\* Longest target name (in tokens) a FuzzTarget is constructed with.
MaxNameLen == 3

\* -------------------------------------------------------------------- values
\* Python's None.  Every value a function returns is a sequence of tokens or
\* a Boolean, so that values of one kind compare with each other.
None == <<"None">>
\* project_name: None, or the name of an OSS-Fuzz project.
ProjectNames == {None, <<"bar">>}
\* target_name: the base name of the target's path, a non-empty string; its
\* tokens are the project's name, an underscore and another word.
NameTokens == {"bar", "_", "foo"}
RECURSIVE NamesUpTo(_)
NamesUpTo(n) ==
  IF n = 0 THEN {<<>>}
  ELSE LET shorter == NamesUpTo(n - 1)
       IN  shorter \cup {Append(s, t) : s \in shorter, t \in NameTokens}
TargetNames == NamesUpTo(MaxNameLen) \ {<<>>}
\* The target name of the objects whose name is not of interest.
TARGET_NAME == <<"foo">>
\* Exit codes of the sandboxed runner.
ExitCodes == {0, 1}

\* A text is a sequence of tokens.  "MARK" stands for the literal
\* "Test unit written to ./", "c" for a word character, "/" for a slash,
\* " " for a whitespace character, "x80" for a byte outside ASCII.
MARK == "MARK"
Tokens == {MARK, "c", "/", " ", "x80"}
RECURSIVE TextsUpTo(_)
TextsUpTo(n) ==
  IF n = 0 THEN {<<>>}
  ELSE LET S == TextsUpTo(n - 1)
       IN  S \cup {Append(s, t) : s \in {x \in S : Len(x) = n - 1}, t \in Tokens}
ErrTexts == TextsUpTo(MaxErrLen)
\* The strings a caller hands to get_test_case: decoded ASCII texts.
ErrorStrings == {s \in TextsUpTo(MaxTextLen) : \A k \in 1..Len(s) : s[k] # "x80"}

\* Paths of the file system.  OUT_DIR is self.out_dir, PR_DIR is
\* os.path.dirname(self.target_path), BUILD_DIR is
\* out_dir/oss_fuzz_latest/<project>, CORPUS_DIR is
\* out_dir/backup_corpus/<target>, *_BIN the target binary inside a build
\* directory, TEST_CASE the candidate test case, TMP_ZIP the temporary
\* archive of download_and_unpack_zip.
OUT_DIR == <<"out_dir">>
PR_DIR == <<"pr_dir">>
PR_BIN == <<"pr_dir", "/", "target">>
BUILD_DIR == <<"out_dir", "/", "oss_fuzz_latest", "/", "project">>
BUILD_BIN == <<"out_dir", "/", "oss_fuzz_latest", "/", "project", "/", "target">>
CORPUS_DIR == <<"out_dir", "/", "backup_corpus", "/", "target">>
TEST_CASE == <<"test_case">>
TMP_ZIP == <<"tmp", ".zip">>
BinOf(dir) == IF dir = PR_DIR THEN PR_BIN ELSE BUILD_BIN
Bins == {PR_BIN, BUILD_BIN}

VARIABLES
  project_name,  \* self.project_name
  duration,      \* self.duration
  files,         \* the set of paths that exist
  mode,          \* permission bits of the target binaries
  stack,         \* call stack: sequence of [fn, pc]
  loc,           \* local variables of the active functions
  ret,           \* value returned by the callee that returned last
  result,        \* outcome of the last call made by the caller of the module
  child,         \* the process started by subprocess.Popen in fuzz():
                 \* "running", or "none" when no such process runs
  elapsed,       \* seconds process.communicate has waited
  obs            \* what the current call has done so far (history)

vars == <<project_name, duration, files, mode, stack, loc, ret, result, child,
          elapsed, obs>>

\* ------------------------------------------------------------ initial state
NoResult == [fn |-> "none", kind |-> "none", val |-> None]

NoLoc ==
  [latest_corpus_path |-> None, err |-> <<>>, test_case |-> None,
   reproducible_in_pr |-> FALSE, target_path |-> None, i |-> 0,
   zip_out_dir |-> None]

NoObs ==
  [attempts |-> [d \in {PR_DIR, BUILD_DIR} |-> 0],
   first_nonzero |-> [d \in {PR_DIR, BUILD_DIR} |-> 0],
   isrep |-> [d \in {PR_DIR, BUILD_DIR} |-> {}],
   version_requests |-> 0,
   fetches |-> [d \in {OUT_DIR, BUILD_DIR, CORPUS_DIR} |-> 0],
   build_ret |-> {},
   check_ret |-> {},
   get_test_case_calls |-> 0,
   popen_calls |-> 0,
   outcome |-> "none",
   returncode |-> 0,
   err |-> <<>>,
   retrieve |-> "none",
   extract |-> "none",
   earlier_build |-> "none",
   target_name |-> TARGET_NAME,
   corpus_name |-> None,
   command_corpus |-> {}]

\* A file system the program can start in: a binary lies in its directory,
\* the build and corpus directories lie in the output directory, and no
\* temporary archive is left over.
ConsistentFiles(F) ==
  /\ PR_BIN \in F => PR_DIR \in F
  /\ BUILD_BIN \in F => BUILD_DIR \in F
  /\ BUILD_DIR \in F => OUT_DIR \in F
  /\ CORPUS_DIR \in F => OUT_DIR \in F
  /\ TMP_ZIP \notin F

AllPaths ==
  {OUT_DIR, PR_DIR, PR_BIN, BUILD_DIR, BUILD_BIN, CORPUS_DIR, TEST_CASE, TMP_ZIP}

Init ==
  /\ project_name \in ProjectNames
  /\ duration \in 1..MaxDuration
  /\ files \in {F \in SUBSET AllPaths : ConsistentFiles(F)}
  /\ mode = [b \in Bins |-> "orig"]
  /\ stack = <<>>
  /\ loc = NoLoc
  /\ ret = None
  /\ result = NoResult
  /\ child = "none"
  /\ elapsed = 0
  /\ obs = NoObs

\* ------------------------------------------------------- call stack helpers
Top == stack[Len(stack)]
At(fn, pc) == Len(stack) > 0 /\ Top.fn = fn /\ Top.pc = pc
Idle == stack = <<>>

\* The active function moves to position pc.
Goto(pc) == [stack EXCEPT ![Len(stack)].pc = pc]
\* The active function moves to position pc and calls fn.
CallFrom(pc, fn) == Append(Goto(pc), [fn |-> fn, pc |-> "start"])
\* The active function returns.
Popped == SubSeq(stack, 1, Len(stack) - 1)

\* "return v": to the calling function, or to the caller of the module.
Return(v) ==
  /\ stack' = Popped
  /\ IF Len(stack) = 1
       THEN /\ result' = [fn |-> Top.fn, kind |-> "return", val |-> v]
            /\ ret' = None
       ELSE /\ ret' = v
            /\ UNCHANGED result

\* "raise exc": no function of the module catches exc, so it unwinds the
\* whole stack and reaches the caller of the module.
Raise(exc) ==
  /\ stack' = <<>>
  /\ result' = [fn |-> stack[1].fn, kind |-> "raise", val |-> exc]
  /\ ret' = None

\* The locals left when the active function returns: none are left when it
\* returns to the caller of the module.
Locals(l) == IF Len(stack) = 1 THEN NoLoc ELSE l

\* The history at the start of a call: nothing done yet.  It remembers
\* whether an earlier call of download_oss_fuzz_build returned the build
\* directory, and whether the target binary was then in it ("fetched": after
\* an archive fetch in that call).
EnterObs ==
  [NoObs EXCEPT !.earlier_build =
     IF obs.build_ret # {BUILD_DIR} \/ obs.earlier_build = "bin fetched"
       THEN obs.earlier_build
     ELSE IF BUILD_BIN \notin files THEN "dir"
     ELSE IF obs.fetches[BUILD_DIR] > 0 THEN "bin fetched"
     ELSE IF obs.earlier_build = "none" THEN "bin cached"
     ELSE obs.earlier_build]

\* The caller of the module calls public function fn; o is the history the
\* call starts with.
EnterWith(fn, o) ==
  /\ Idle
  /\ stack' = <<[fn |-> fn, pc |-> "start"]>>
  /\ ret' = None
  /\ obs' = o
  /\ result' = NoResult
  /\ elapsed' = 0
  /\ UNCHANGED <<project_name, duration, files, mode, child>>

Enter(fn) == EnterWith(fn, NoObs)


\* ------------------------------------------------- FuzzTarget.get_test_case
\* \b before "Test": the preceding character, if any, is not a word character.
IsWordTok(t) == t = "c"
\* [^\s]+ : the longest run of non-whitespace characters starting at j.  The
\* literal "Test unit written to ./" holds a space after "Test".
RECURSIVE Group(_, _)
Group(s, j) ==
  IF j > Len(s) \/ s[j] = " " THEN <<>>
  ELSE IF s[j] = MARK THEN <<"Test">>
  ELSE <<s[j]>> \o Group(s, j + 1)

MatchAt(s, i) ==
  /\ s[i] = MARK
  /\ i = 1 \/ ~IsWordTok(s[i - 1])
  /\ i < Len(s)
  /\ s[i + 1] # " "

\* Mutant of PathJoin: the strings are concatenated with a separator.
PathJoin_Concat(base, rel) == base \o <<"/">> \o rel

\* os.path.join(base, rel): rel replaces base when rel is absolute.
PathJoin(base, rel) ==
  IF rel # <<>> /\ rel[1] = "/" THEN rel ELSE base \o <<"/">> \o rel

get_test_case(error_string) ==
  LET hits == {i \in 1..Len(error_string) : MatchAt(error_string, i)}
  IN  IF hits = {} THEN None
      ELSE LET first == CHOOSE i \in hits : \A k \in hits : i <= k
           IN  PathJoin(OUT_DIR, Group(error_string, first + 1))

\* err.decode('ascii') raises UnicodeDecodeError on a byte outside ASCII.
IsAscii(bytes) == \A k \in 1..Len(bytes) : bytes[k] # "x80"

\* ----------------------------------------------- FuzzTarget.is_reproducible
IsReproducibleReturn(v) ==
  /\ Return(v)
  /\ loc' = Locals([loc EXCEPT !.target_path = None, !.i = 0])

\* Mutant of AttemptsLeft: the loop runs once more (range(N + 1)).
AttemptsLeft_OneMore(i) == i <= REPRODUCE_ATTEMPTS

\* for _ in range(REPRODUCE_ATTEMPTS): another attempt is due.
AttemptsLeft(i) == i < REPRODUCE_ATTEMPTS

\* Mutant of TestCaseExists: the test case is taken to be there.
TestCaseExists_Always == TRUE

\* os.path.exists(test_case)
TestCaseExists == TEST_CASE \in files

IsReproducibleStart ==
  /\ At("is_reproducible", "start")
  /\ IF ~TestCaseExists
       THEN /\ IsReproducibleReturn(FALSE)
            /\ obs' = [obs EXCEPT !.isrep[loc.target_path] = {FALSE}]
            /\ UNCHANGED mode
       ELSE IF loc.target_path \in files /\ BinOf(loc.target_path) \notin files
       THEN \* os.chmod of a file that does not exist
            /\ Raise("FileNotFoundError")
            /\ loc' = NoLoc
            /\ UNCHANGED <<mode, obs>>
       ELSE /\ mode' = IF loc.target_path \in files
                         THEN [mode EXCEPT ![BinOf(loc.target_path)] = "S_IRWXO"]
                         ELSE mode
            /\ stack' = Goto("loop")
            /\ loc' = [loc EXCEPT !.i = 0]
            /\ UNCHANGED <<ret, result, obs>>
  /\ UNCHANGED <<project_name, duration, files, child, elapsed>>

\* One pass of the loop: utils.execute(command) answers err_code.
IsReproducibleAttempt(err_code) ==
  /\ At("is_reproducible", "loop")
  /\ AttemptsLeft(loc.i)
  /\ LET d == loc.target_path
         o == [obs EXCEPT !.attempts[d] = @ + 1,
                          !.first_nonzero[d] =
                              IF @ = 0 /\ err_code # 0 THEN loc.i + 1 ELSE @]
     IN  IF err_code # 0
           THEN /\ IsReproducibleReturn(TRUE)
                /\ obs' = [o EXCEPT !.isrep[d] = {TRUE}]
           ELSE /\ loc' = [loc EXCEPT !.i = @ + 1]
                /\ obs' = o
                /\ UNCHANGED <<stack, ret, result>>
  /\ UNCHANGED <<project_name, duration, files, mode, child, elapsed>>

\* The loop has run REPRODUCE_ATTEMPTS times without a crash.
IsReproducibleExhausted ==
  /\ At("is_reproducible", "loop")
  /\ ~AttemptsLeft(loc.i)
  /\ IsReproducibleReturn(FALSE)
  /\ obs' = [obs EXCEPT !.isrep[loc.target_path] = {FALSE}]
  /\ UNCHANGED <<project_name, duration, files, mode, child, elapsed>>

\* ---------------------- FuzzTarget.check_reproducibility_and_regression
CHECK == "check_reproducibility_and_regression"

CheckReturn(v) ==
  /\ Return(v)
  /\ obs' = [obs EXCEPT !.check_ret = {v}]
  /\ loc' = Locals([loc EXCEPT !.reproducible_in_pr = FALSE])

\* Mutant of Verdict: the baseline result is ignored.
Verdict_IgnoreBaseline(reproducible_in_pr, reproducible_in_oss_fuzz) ==
  reproducible_in_pr

\* reproducible_in_pr and not reproducible_in_oss_fuzz
Verdict(reproducible_in_pr, reproducible_in_oss_fuzz) ==
  reproducible_in_pr /\ ~reproducible_in_oss_fuzz

\* Mutant of HasProject: the test for a missing project is left out.
HasProject_Always(name) == TRUE
\* if not self.project_name
HasProject(name) == name # None

\* Mutant of NoProjectResult: a crash without a project always counts.
NoProjectResult_True(reproducible_in_pr) == TRUE
\* return reproducible_in_pr: the result when there is no project.
NoProjectResult(reproducible_in_pr) == reproducible_in_pr

\* Mutant of NoBaselineResult: a missing baseline is treated like a missing
\* project.
NoBaselineResult_AsNoProject(reproducible_in_pr) == reproducible_in_pr
\* return False: the result when no baseline build was obtained.
NoBaselineResult(reproducible_in_pr) == FALSE

\* Mutant of NotReproducible: the early return is left out.
NotReproducible_Never(reproducible_in_pr) == FALSE
\* if not reproducible_in_pr
NotReproducible(reproducible_in_pr) == ~reproducible_in_pr

CheckStart ==
  /\ At(CHECK, "start")
  /\ stack' = CallFrom("after_pr", "is_reproducible")
  /\ loc' = [loc EXCEPT !.target_path = PR_DIR]
  /\ UNCHANGED <<project_name, duration, files, mode, ret, result, child,
                 elapsed, obs>>

CheckAfterPr ==
  /\ At(CHECK, "after_pr")
  /\ IF ~HasProject(project_name) THEN CheckReturn(NoProjectResult(ret))
     ELSE IF NotReproducible(ret) THEN CheckReturn(FALSE)
     ELSE /\ stack' = CallFrom("after_build", "download_oss_fuzz_build")
          /\ loc' = [loc EXCEPT !.reproducible_in_pr = ret]
          /\ UNCHANGED <<ret, result, obs>>
  /\ UNCHANGED <<project_name, duration, files, mode, child, elapsed>>

CheckAfterBuild ==
  /\ At(CHECK, "after_build")
  /\ IF ret = None THEN CheckReturn(NoBaselineResult(loc.reproducible_in_pr))
     ELSE /\ stack' = CallFrom("after_oss", "is_reproducible")
          /\ loc' = [loc EXCEPT !.target_path = ret]
          /\ UNCHANGED <<ret, result, obs>>
  /\ UNCHANGED <<project_name, duration, files, mode, child, elapsed>>

CheckAfterOss ==
  /\ At(CHECK, "after_oss")
  /\ CheckReturn(Verdict(loc.reproducible_in_pr, ret))
  /\ UNCHANGED <<project_name, duration, files, mode, child, elapsed>>

\* ------------------------------------ FuzzTarget.get_lastest_build_version
\* What urllib.request.urlopen(version_url) answers: a body, or an error.
VersionResponses == {<<"v1">>, <<>>, <<"HTTPError">>, <<"URLError">>}

GetLatestBuildVersion(response) ==
  /\ At("get_lastest_build_version", "start")
  /\ IF ~HasProject(project_name)
       THEN /\ response = <<"v1">>
            /\ Return(None)
            /\ UNCHANGED obs
       ELSE /\ obs' = [obs EXCEPT !.version_requests = @ + 1]
            /\ CASE response = <<"HTTPError">> -> Return(None)
                 [] response = <<"URLError">> -> Raise("URLError")
                 [] OTHER -> Return(response)
  /\ loc' = IF response = <<"URLError">> /\ HasProject(project_name)
              THEN NoLoc ELSE Locals(loc)
  /\ UNCHANGED <<project_name, duration, files, mode, child, elapsed>>

\* -------------------------------------- FuzzTarget.download_oss_fuzz_build
\* Mutant of OutDirExists: the test of the output directory is left out.
OutDirExists_Skipped == TRUE
\* os.path.exists(self.out_dir)
OutDirExists == OUT_DIR \in files

\* os.makedirs(dir, exist_ok=True), dir lying in the output directory: the
\* directory and the directories above it exist afterwards.
MakeDirs(F, dir) == F \cup {OUT_DIR, dir}

BuildReturn(v) ==
  /\ Return(v)
  /\ loc' = Locals(loc)
  /\ obs' = [obs EXCEPT !.build_ret = {v}]

\* Mutant of BuildCached: the build is fetched again on every call.
BuildCached_Never == FALSE
\* if os.path.exists(os.path.join(build_dir, self.target_name))
BuildCached == BUILD_BIN \in files

DownloadBuildStart ==
  /\ At("download_oss_fuzz_build", "start")
  /\ IF ~OutDirExists \/ ~HasProject(project_name)
       THEN BuildReturn(None) /\ UNCHANGED files
     ELSE IF BuildCached
       THEN BuildReturn(BUILD_DIR) /\ UNCHANGED files
     ELSE /\ files' = MakeDirs(files, BUILD_DIR)
          /\ stack' = CallFrom("after_version", "get_lastest_build_version")
          /\ UNCHANGED <<loc, ret, result, obs>>
  /\ UNCHANGED <<project_name, duration, mode, child, elapsed>>

DownloadBuildAfterVersion ==
  /\ At("download_oss_fuzz_build", "after_version")
  /\ IF ret \in {None, <<>>}
       THEN BuildReturn(None)
       ELSE /\ stack' = CallFrom("after_unpack", "download_and_unpack_zip")
            /\ loc' = [loc EXCEPT !.zip_out_dir = BUILD_DIR]
            /\ UNCHANGED <<ret, result, obs>>
  /\ UNCHANGED <<project_name, duration, files, mode, child, elapsed>>

DownloadBuildAfterUnpack ==
  /\ At("download_oss_fuzz_build", "after_unpack")
  /\ BuildReturn(ret)
  /\ UNCHANGED <<project_name, duration, files, mode, child, elapsed>>

\* --------------------------------------- FuzzTarget.download_latest_corpus
\* s.startswith(prefix)
StartsWith(s, prefix) ==
  /\ Len(s) >= Len(prefix)
  /\ SubSeq(s, 1, Len(prefix)) = prefix

\* Mutant of QualifiedName: the prefix is put in front of every name.
QualifiedName_Always(target_name, project) == project \o <<"_">> \o target_name

\* project_qualified_fuzz_target_name of a target of a project.
QualifiedName(target_name, project) ==
  LET qualified_name_prefix == project \o <<"_">>
  IN  IF ~StartsWith(target_name, qualified_name_prefix)
        THEN qualified_name_prefix \o target_name
        ELSE target_name

\* obs.target_name is self.target_name of the object the call is made on;
\* obs.corpus_name is the name the corpus URL is made of.
DownloadCorpusStart ==
  /\ At("download_latest_corpus", "start")
  /\ IF ~HasProject(project_name) \/ ~OutDirExists
       THEN Return(None) /\ loc' = Locals(loc) /\ UNCHANGED <<files, obs>>
       ELSE /\ files' = MakeDirs(files, CORPUS_DIR)
            /\ obs' = [obs EXCEPT
                 !.corpus_name = QualifiedName(obs.target_name, project_name)]
            /\ stack' = CallFrom("after_unpack", "download_and_unpack_zip")
            /\ loc' = [loc EXCEPT !.zip_out_dir = CORPUS_DIR]
            /\ UNCHANGED <<ret, result>>
  /\ UNCHANGED <<project_name, duration, mode, child, elapsed>>

DownloadCorpusAfterUnpack ==
  /\ At("download_latest_corpus", "after_unpack")
  /\ Return(ret)
  /\ loc' = Locals(loc)
  /\ UNCHANGED <<project_name, duration, files, mode, child, elapsed, obs>>

\* ------------------------------------------------ download_and_unpack_zip
\* What urllib.request.urlretrieve answers.
RetrieveOutcomes == {"ok", "HTTPError", "URLError"}
\* What ZipFile(...).extractall answers: the archive unpacked (holding the
\* target binary or not), a bad archive, or a failure to write.
ExtractOutcomes == {"ok with target", "ok without target", "BadZipFile", "OSError"}

\* Mutant of CloseTmp: the temporary file is created with delete=False and
\* never removed.
CloseTmp_Keep(F) == F
\* Leaving the "with tempfile.NamedTemporaryFile" block removes the file.
CloseTmp(F) == F \ {TMP_ZIP}

UnpackReturn(v) ==
  /\ Return(v)
  /\ loc' = Locals([loc EXCEPT !.zip_out_dir = None])

\* except urllib.error.HTTPError: the download errors that are caught.
RetrieveCaught(outcome) == outcome = "HTTPError"
\* except zipfile.BadZipFile: the extraction errors that are caught.
ExtractCaught(outcome) == outcome = "BadZipFile"

UnpackStart ==
  /\ At("download_and_unpack_zip", "start")
  /\ IF loc.zip_out_dir \notin files
       THEN UnpackReturn(None) /\ UNCHANGED files
       ELSE /\ files' = files \cup {TMP_ZIP}
            /\ stack' = Goto("retrieve")
            /\ UNCHANGED <<loc, ret, result>>
  /\ UNCHANGED <<project_name, duration, mode, child, elapsed, obs>>

UnpackRetrieve(outcome) ==
  /\ At("download_and_unpack_zip", "retrieve")
  /\ obs' = [obs EXCEPT !.fetches[loc.zip_out_dir] = @ + 1,
                         !.retrieve = outcome]
  /\ IF outcome = "ok"
       THEN /\ stack' = Goto("extract")
            /\ UNCHANGED <<files, loc, ret, result>>
     ELSE IF RetrieveCaught(outcome)
       THEN /\ files' = CloseTmp(files)
            /\ UnpackReturn(None)
     ELSE /\ files' = CloseTmp(files)
          /\ Raise(outcome)
          /\ loc' = NoLoc
  /\ UNCHANGED <<project_name, duration, mode, child, elapsed>>

UnpackExtract(outcome) ==
  /\ At("download_and_unpack_zip", "extract")
  /\ IF outcome \in {"ok with target", "ok without target"}
       THEN LET new == IF loc.zip_out_dir = BUILD_DIR /\ outcome = "ok with target"
                         THEN {BUILD_BIN} ELSE {}
            IN  /\ files' = CloseTmp(files) \cup new
                /\ mode' = IF new = {} THEN mode ELSE [mode EXCEPT ![BUILD_BIN] = "orig"]
                /\ UnpackReturn(loc.zip_out_dir)
     ELSE IF ExtractCaught(outcome)
       THEN /\ files' = CloseTmp(files)
            /\ UnpackReturn(None)
            /\ UNCHANGED mode
     ELSE /\ files' = CloseTmp(files)
          /\ Raise(outcome)
          /\ loc' = NoLoc
          /\ UNCHANGED mode
  /\ obs' = [obs EXCEPT !.extract = outcome]
  /\ UNCHANGED <<project_name, duration, child, elapsed>>


\* --------------------------------------------------------- FuzzTarget.fuzz
NoneNone == <<None, None>>

FuzzReturn(v) ==
  /\ Return(v)
  /\ loc' = Locals(loc)

\* process.communicate(timeout=self.duration + BUFFER_TIME)
Deadline == duration + BUFFER_TIME

\* Mutant of ExitedClean: tests "returncode is None", which never holds once
\* communicate has returned.
ExitedClean_IsNone(returncode) == FALSE
\* if not process.returncode
ExitedClean(returncode) == returncode = 0

\* Mutant of FuzzVerdictResult: the verdict is not consulted.
FuzzVerdictResult_Always(verdict, test_case, err_str) == <<test_case, err_str>>

\* if self.check_reproducibility_and_regression(test_case):
\*   return test_case, err_str
\* return None, None
FuzzVerdictResult(verdict, test_case, err_str) ==
  IF verdict THEN <<test_case, err_str>> ELSE NoneNone

FuzzStart ==
  /\ At("fuzz", "start")
  /\ stack' = CallFrom("after_corpus", "download_latest_corpus")
  /\ UNCHANGED <<project_name, duration, files, mode, loc, ret, result, child,
                 elapsed, obs>>

\* The command is completed (obs.command_corpus: the corpus path appended to
\* it, if any) and subprocess.Popen starts the child.
FuzzPopen ==
  /\ At("fuzz", "after_corpus")
  /\ loc' = [loc EXCEPT !.latest_corpus_path = ret]
  /\ child' = "running"
  /\ elapsed' = 0
  /\ obs' = [obs EXCEPT !.popen_calls = @ + 1,
                         !.command_corpus = IF ret # None THEN {ret} ELSE {}]
  /\ stack' = Goto("communicate")
  /\ UNCHANGED <<project_name, duration, files, mode, ret, result>>

\* communicate keeps waiting: a second passes and the child still runs.
FuzzWait ==
  /\ At("fuzz", "communicate")
  /\ elapsed < Deadline
  /\ elapsed' = elapsed + 1
  /\ UNCHANGED <<project_name, duration, files, mode, stack, loc, ret, result,
                 child, obs>>

\* The child exits before the deadline with returncode and stderr bytes err.
FuzzProcessExits(returncode, err) ==
  /\ At("fuzz", "communicate")
  /\ elapsed < Deadline
  /\ child' = "none"
  /\ elapsed' = 0
  /\ obs' = [obs EXCEPT !.outcome = "exited", !.returncode = returncode,
                         !.err = err]
  /\ IF ExitedClean(returncode)
       THEN FuzzReturn(NoneNone)
       ELSE /\ stack' = Goto("crashed")
            /\ loc' = [loc EXCEPT !.err = err]
            /\ UNCHANGED <<ret, result>>
  /\ UNCHANGED <<project_name, duration, files, mode>>

\* except subprocess.TimeoutExpired: return None, None.  The handler does
\* not touch the child.
ChildAfterTimeout == child

\* Mutant of FuzzTimeout: subprocess.TimeoutExpired is not caught.
FuzzTimeout_Uncaught ==
  /\ At("fuzz", "communicate")
  /\ elapsed = Deadline
  /\ Raise("TimeoutExpired")
  /\ loc' = NoLoc
  /\ elapsed' = 0
  /\ obs' = [obs EXCEPT !.outcome = "timeout"]
  /\ UNCHANGED <<project_name, duration, files, mode, child>>

FuzzTimeout ==
  /\ At("fuzz", "communicate")
  /\ elapsed = Deadline
  /\ FuzzReturn(NoneNone)
  /\ child' = ChildAfterTimeout
  /\ elapsed' = 0
  /\ obs' = [obs EXCEPT !.outcome = "timeout"]
  /\ UNCHANGED <<project_name, duration, files, mode>>

\* err.decode('ascii'), then get_test_case.
FuzzCrashed ==
  /\ At("fuzz", "crashed")
  /\ IF ~IsAscii(loc.err)
       THEN /\ Raise("UnicodeDecodeError")
            /\ loc' = NoLoc
            /\ UNCHANGED obs
       ELSE LET test_case == get_test_case(loc.err)
            IN  /\ obs' = [obs EXCEPT !.get_test_case_calls = @ + 1]
                /\ IF test_case = None
                     THEN FuzzReturn(NoneNone)
                     ELSE /\ stack' = CallFrom("after_check", CHECK)
                          /\ loc' = [loc EXCEPT !.test_case = test_case]
                          /\ UNCHANGED <<ret, result>>
  /\ UNCHANGED <<project_name, duration, files, mode, child, elapsed>>

FuzzAfterCheck ==
  /\ At("fuzz", "after_check")
  /\ FuzzReturn(FuzzVerdictResult(ret, loc.test_case, loc.err))
  /\ UNCHANGED <<project_name, duration, files, mode, child, elapsed, obs>>

\* A child left running ends by itself (run_fuzzer -max_total_time).
ChildEnds ==
  /\ child = "running"
  /\ ~At("fuzz", "communicate")
  /\ child' = "none"
  /\ UNCHANGED <<project_name, duration, files, mode, stack, loc, ret, result,
                 elapsed, obs>>

\* ------------------------------------------- calls by the module's caller
\* The test case a caller hands to is_reproducible or
\* check_reproducibility_and_regression.
CallerTestCase == PathJoin(OUT_DIR, <<"c">>)

CallFuzz ==
  /\ Enter("fuzz")
  /\ loc' = NoLoc

CallIsReproducible(target_path) ==
  /\ Enter("is_reproducible")
  /\ loc' = [NoLoc EXCEPT !.test_case = CallerTestCase,
                          !.target_path = target_path]

CallCheck ==
  /\ Enter(CHECK)
  /\ loc' = [NoLoc EXCEPT !.test_case = CallerTestCase]

CallDownloadBuild ==
  /\ Enter("download_oss_fuzz_build")
  /\ loc' = NoLoc

CallGetTestCase(error_string) ==
  /\ EnterWith("get_test_case", [NoObs EXCEPT !.err = error_string])
  /\ loc' = [NoLoc EXCEPT !.err = error_string]

\* get_test_case called by the caller of the module.
GetTestCase ==
  /\ At("get_test_case", "start")
  /\ Return(get_test_case(loc.err))
  /\ loc' = NoLoc
  /\ obs' = [obs EXCEPT !.get_test_case_calls = @ + 1]
  /\ UNCHANGED <<project_name, duration, files, mode, child, elapsed>>

\* A call of download_oss_fuzz_build whose history remembers the calls before.
CallDownloadBuildAgain ==
  /\ EnterWith("download_oss_fuzz_build", EnterObs)
  /\ loc' = NoLoc

CallDownloadCorpus ==
  /\ Enter("download_latest_corpus")
  /\ loc' = NoLoc

\* download_latest_corpus called on an object of the given target name.
CallDownloadCorpusOf(target_name) ==
  /\ EnterWith("download_latest_corpus", [NoObs EXCEPT !.target_name = target_name])
  /\ loc' = NoLoc

CallUnpack(out_dir) ==
  /\ Enter("download_and_unpack_zip")
  /\ loc' = [NoLoc EXCEPT !.zip_out_dir = out_dir]

\* ------------------------------------------------------- the specification
Next ==
  \/ CallFuzz
  \/ \E d \in {PR_DIR, BUILD_DIR} : CallIsReproducible(d)
  \/ CallCheck
  \/ CallDownloadBuild
  \/ CallDownloadCorpus
  \/ \E d \in {OUT_DIR, BUILD_DIR, CORPUS_DIR} : CallUnpack(d)
  \/ FuzzStart
  \/ FuzzPopen
  \/ FuzzWait
  \/ \E c \in ExitCodes, e \in ErrTexts : FuzzProcessExits(c, e)
  \/ FuzzTimeout
  \/ FuzzCrashed
  \/ FuzzAfterCheck
  \/ ChildEnds
  \/ IsReproducibleStart
  \/ \E c \in ExitCodes : IsReproducibleAttempt(c)
  \/ IsReproducibleExhausted
  \/ CheckStart
  \/ CheckAfterPr
  \/ CheckAfterBuild
  \/ CheckAfterOss
  \/ \E r \in VersionResponses : GetLatestBuildVersion(r)
  \/ DownloadBuildStart
  \/ DownloadBuildAfterVersion
  \/ DownloadBuildAfterUnpack
  \/ DownloadCorpusStart
  \/ DownloadCorpusAfterUnpack
  \/ UnpackStart
  \/ \E o \in RetrieveOutcomes : UnpackRetrieve(o)
  \/ \E o \in ExtractOutcomes : UnpackExtract(o)

Spec == Init /\ [][Next]_vars

\* Calls of get_test_case on a target whose output directory exists.
InitText ==
  /\ Init
  /\ project_name = None
  /\ duration = 1
  /\ files = {OUT_DIR}

NextText ==
  \/ \E s \in ErrorStrings : CallGetTestCase(s)
  \/ GetTestCase

SpecText == InitText /\ [][NextText]_vars

\* Calls of download_latest_corpus on targets of every name.
NextCorpus ==
  \/ \E n \in TargetNames : CallDownloadCorpusOf(n)
  \/ DownloadCorpusStart
  \/ DownloadCorpusAfterUnpack
  \/ UnpackStart
  \/ \E o \in RetrieveOutcomes : UnpackRetrieve(o)
  \/ \E o \in ExtractOutcomes : UnpackExtract(o)

SpecCorpus == Init /\ [][NextCorpus]_vars

\* Repeated calls of download_oss_fuzz_build on one target.
NextBuild ==
  \/ CallDownloadBuildAgain
  \/ DownloadBuildStart
  \/ DownloadBuildAfterVersion
  \/ DownloadBuildAfterUnpack
  \/ \E r \in VersionResponses : GetLatestBuildVersion(r)
  \/ UnpackStart
  \/ \E o \in RetrieveOutcomes : UnpackRetrieve(o)
  \/ \E o \in ExtractOutcomes : UnpackExtract(o)

SpecBuild == Init /\ [][NextBuild]_vars


\* ------------------------------------------------------------------ claims
Dirs == {PR_DIR, BUILD_DIR}
\* The function the caller of the module called (last).
Entry == IF stack # <<>> THEN stack[1].fn ELSE result.fn
\* The call made by the caller of the module has ended.
Ended == Idle /\ result.kind # "none"
Returned(fn) == Idle /\ result.fn = fn /\ result.kind = "return"

\* C1: is_reproducible, given a test case that exists, makes its attempts one
\* by one; the first attempt that exits non-zero is the last one and makes it
\* return True; it returns False only after REPRODUCE_ATTEMPTS attempts that
\* all exited zero; it never makes more than REPRODUCE_ATTEMPTS attempts.
C1_ShortCircuit ==
  \A d \in Dirs :
    /\ obs.attempts[d] <= REPRODUCE_ATTEMPTS
    /\ obs.first_nonzero[d] # 0 =>
         /\ obs.attempts[d] = obs.first_nonzero[d]
         /\ obs.isrep[d] = {TRUE}
    /\ obs.isrep[d] = {TRUE} => obs.first_nonzero[d] # 0
    /\ (obs.isrep[d] = {FALSE} /\ TEST_CASE \in files) =>
         /\ obs.attempts[d] = REPRODUCE_ATTEMPTS
         /\ obs.first_nonzero[d] = 0

\* The current build reproduced at its third attempt and the baseline build
\* did not reproduce in ten attempts.
C1_Witness ==
  /\ obs.isrep[PR_DIR] = {TRUE}
  /\ obs.attempts[PR_DIR] = 3
  /\ obs.isrep[BUILD_DIR] = {FALSE}
  /\ obs.attempts[BUILD_DIR] = REPRODUCE_ATTEMPTS

\* C2: when is_reproducible against the current build returned False,
\* check_reproducibility_and_regression returns False, with or without a
\* project and whatever the baseline would have answered.
C2_NotReproducibleIsFalse ==
  (obs.isrep[PR_DIR] = {FALSE} /\ obs.check_ret # {}) => obs.check_ret = {FALSE}

\* Not reproducible in the current build, while a project is set and a
\* cached baseline build is at hand.
C2_Witness ==
  /\ obs.isrep[PR_DIR] = {FALSE}
  /\ obs.check_ret = {FALSE}
  /\ HasProject(project_name)
  /\ BUILD_BIN \in files

\* C3: with a project and a baseline build directory obtained,
\* check_reproducibility_and_regression returns True exactly when
\* is_reproducible returned True for the current build and False for the
\* baseline build.
C3_VerdictIff ==
  (HasProject(project_name) /\ obs.build_ret = {BUILD_DIR} /\ obs.check_ret # {})
    => (obs.check_ret = {TRUE}
          <=> (obs.isrep[PR_DIR] = {TRUE} /\ obs.isrep[BUILD_DIR] = {FALSE}))

\* Both builds reproduce and the verdict is False.
C3_Witness ==
  /\ HasProject(project_name)
  /\ obs.build_ret = {BUILD_DIR}
  /\ obs.isrep[PR_DIR] = {TRUE}
  /\ obs.isrep[BUILD_DIR] = {TRUE}
  /\ obs.check_ret = {FALSE}

\* C4: without a project, check_reproducibility_and_regression returns what
\* is_reproducible returned for the current build, and requests no baseline
\* version, fetches no baseline archive and makes no attempt against a
\* baseline directory.
CheckActive == \E k \in 1..Len(stack) : stack[k].fn = CHECK
C4_NoProject ==
  (project_name = None /\ (CheckActive \/ obs.check_ret # {})) =>
    /\ obs.version_requests = 0
    /\ obs.fetches[BUILD_DIR] = 0
    /\ obs.attempts[BUILD_DIR] = 0
    /\ obs.check_ret # {} => obs.check_ret = obs.isrep[PR_DIR]

\* No project, and the classification is True.
C4_Witness ==
  /\ project_name = None
  /\ obs.check_ret = {TRUE}
  /\ obs.isrep[PR_DIR] = {TRUE}

CrashText == <<MARK, "c">>
CrashPath == OUT_DIR \o <<"/", "c">>
\* fuzz() has ended after the child exited non-zero with stderr CrashText,
\* no project being set.
ScenarioB ==
  /\ Ended
  /\ Entry = "fuzz"
  /\ project_name = None
  /\ obs.outcome = "exited"
  /\ obs.returncode # 0
  /\ obs.err = CrashText
NoBaselineWork ==
  /\ obs.version_requests = 0
  /\ obs.fetches[BUILD_DIR] = 0
  /\ obs.attempts[BUILD_DIR] = 0
  /\ obs.build_ret = {}

\* C6 as stated: a non-zero exit before the deadline with the marker in
\* stderr and no project makes fuzz() return (out_dir/crash-abc123, stderr),
\* with no baseline resolved or compared.  Stated with the output directory,
\* the test case and the target binary all in place.
C6_AsStated ==
  (ScenarioB /\ {OUT_DIR, TEST_CASE, PR_DIR, PR_BIN} \subseteq files) =>
    /\ result.kind = "return"
    /\ result.val = <<CrashPath, CrashText>>
    /\ NoBaselineWork

\* C6 amended: in that scenario fuzz() returns (out_dir/crash-abc123, stderr)
\* if is_reproducible against the current build returned True and
\* (None, None) if it returned False; no baseline is resolved or compared.
C6_Amended ==
  ScenarioB =>
    /\ obs.isrep[PR_DIR] = {TRUE} =>
         (result.kind = "return" /\ result.val = <<CrashPath, CrashText>>)
    /\ obs.isrep[PR_DIR] = {FALSE} =>
         (result.kind = "return" /\ result.val = NoneNone)
    /\ NoBaselineWork

\* Scenario B with a crash that reproduces: the artifact is reported.
C6_Witness ==
  /\ ScenarioB
  /\ obs.isrep[PR_DIR] = {TRUE}
  /\ result.val = <<CrashPath, CrashText>>

C9_ChildTerminated ==
  (Ended /\ Entry = "fuzz" /\ obs.outcome = "timeout") => child # "running"

\* C10 as stated: given an existing destination, download_and_unpack_zip
\* returns None and raises nothing for every transport failure and every
\* corrupt archive, and returns the destination only when download and
\* extraction both succeeded.
C10_FailuresGiveNone ==
  (Ended /\ Entry = "download_and_unpack_zip" /\ obs.retrieve # "none") =>
    /\ (obs.retrieve \in {"HTTPError", "URLError"} \/ obs.extract = "BadZipFile")
         => (result.kind = "return" /\ result.val = None)
    /\ (result.kind = "return" /\ result.val # None) =>
         /\ obs.retrieve = "ok"
         /\ obs.extract \in {"ok with target", "ok without target"}

\* C11 as stated: whatever the collaborators answer, fuzz() ends by returning
\* a pair and never by raising an exception.
C11_FuzzNeverRaises ==
  (Ended /\ Entry = "fuzz") =>
    /\ result.kind = "return"
    /\ Len(result.val) = 2

\* C12: once download_and_unpack_zip has finished, by a return or by an
\* exception, the temporary archive it created does not exist.
UnpackActive == \E k \in 1..Len(stack) : stack[k].fn = "download_and_unpack_zip"
C12_TmpRemoved == ~UnpackActive => TMP_ZIP \notin files

\* The extraction failed with an error that is not caught, and the temporary
\* archive is gone.
C12_Witness ==
  /\ Ended
  /\ Entry = "download_and_unpack_zip"
  /\ obs.retrieve = "ok"
  /\ obs.extract = "OSError"
  /\ result.kind = "raise"
  /\ TMP_ZIP \notin files

\* C13 as stated: after a call of download_oss_fuzz_build has returned the
\* build directory, a later call requests no version, fetches no archive and
\* returns the build directory.
C13_AsStated ==
  (obs.earlier_build # "none" /\ Entry = "download_oss_fuzz_build") =>
    /\ obs.version_requests = 0
    /\ obs.fetches[BUILD_DIR] = 0
    /\ Ended => (result.kind = "return" /\ result.val = BUILD_DIR)

\* C13 amended: after a call of download_oss_fuzz_build has returned the
\* build directory with the target binary in it, a later call requests no
\* version, fetches no archive and returns the build directory.
C13_Amended ==
  (obs.earlier_build \in {"bin cached", "bin fetched"}
     /\ Entry = "download_oss_fuzz_build") =>
    /\ obs.version_requests = 0
    /\ obs.fetches[BUILD_DIR] = 0
    /\ obs.build_ret \subseteq {BUILD_DIR}
    /\ (Ended /\ Entry = "download_oss_fuzz_build") =>
         (result.kind = "return" /\ result.val = BUILD_DIR)

\* A first call fetched the archive with the binary; the second call has
\* returned the build directory.
C13_Witness ==
  /\ obs.earlier_build = "bin fetched"
  /\ Returned("download_oss_fuzz_build")
  /\ result.val = BUILD_DIR
  /\ obs.fetches[BUILD_DIR] = 0

\* C14: while the output directory does not exist, no step of a call of
\* download_oss_fuzz_build or download_latest_corpus creates a file or a
\* directory, requests a version or fetches an archive, and the call returns
\* None; when the output directory exists (and a project is set), the first
\* step of either function leaves its subdirectory in place.
C14_Step ==
  /\ (stack # <<>>
        /\ stack[1].fn \in {"download_oss_fuzz_build", "download_latest_corpus"}
        /\ OUT_DIR \notin files) =>
       /\ files' = files
       /\ obs'.version_requests = 0
       /\ \A d \in {OUT_DIR, BUILD_DIR, CORPUS_DIR} : obs'.fetches[d] = 0
       /\ stack' = <<>> => (result'.kind = "return" /\ result'.val = None)
  /\ (At("download_oss_fuzz_build", "start") /\ stack' # stack
        /\ OUT_DIR \in files /\ HasProject(project_name)) => BUILD_DIR \in files'
  /\ (At("download_latest_corpus", "start") /\ stack' # stack
        /\ OUT_DIR \in files /\ HasProject(project_name)) => CORPUS_DIR \in files'
C14_OutDirRequired == [][C14_Step]_vars

\* download_oss_fuzz_build has returned None for a project whose output
\* directory does not exist.
C14_Witness ==
  /\ Returned("download_oss_fuzz_build")
  /\ HasProject(project_name)
  /\ OUT_DIR \notin files
  /\ result.val = None

\* C15 as stated: for every text that holds the marker followed by a path,
\* get_test_case returns a path under the output directory, and for every
\* text without the marker it returns None.
C15_AsStated ==
  Returned("get_test_case") =>
    LET s == obs.err
        marks == {i \in 1..Len(s) : s[i] = MARK}
        withPath == {i \in marks : i < Len(s) /\ s[i + 1] # " "}
    IN  /\ withPath # {} =>
             /\ result.val # None
             /\ Len(result.val) > 2
             /\ SubSeq(result.val, 1, 2) = OUT_DIR \o <<"/">>
        /\ marks = {} => result.val = None

\* The occurrences of the marker that start at a word boundary and are
\* followed by a character that is not whitespace.
C15_Hits(s) ==
  {i \in 1..(Len(s) - 1) :
     s[i] = MARK /\ (i = 1 \/ s[i - 1] # "c") /\ s[i + 1] # " "}
\* The run of non-whitespace characters of s from position j on ("Test" is
\* all of it that a following marker text contributes).
C15_Run(s, j) ==
  LET stops == {k \in j..Len(s) : s[k] \in {" ", MARK}}
      end == IF stops = {} THEN Len(s) + 1
             ELSE CHOOSE k \in stops : \A m \in stops : k <= m
  IN  SubSeq(s, j, end - 1)
        \o (IF end <= Len(s) /\ s[end] = MARK THEN <<"Test">> ELSE <<>>)

\* C15 amended: get_test_case returns None for every text without an
\* occurrence of the marker that starts at a word boundary and is followed by
\* a non-whitespace character (so for every text without the marker); else,
\* with p the run of non-whitespace characters after the first such
\* occurrence, it returns out_dir/p, or p itself when p starts with "/".
C15_Amended ==
  Returned("get_test_case") =>
    LET s == obs.err
        hits == C15_Hits(s)
    IN  IF hits = {} THEN result.val = None
        ELSE LET first == CHOOSE i \in hits : \A k \in hits : i <= k
                 p == C15_Run(s, first + 1)
             IN  result.val = IF p[1] = "/" THEN p ELSE OUT_DIR \o <<"/">> \o p

\* The marker after a space, followed by a file name: the path under the
\* output directory is returned.
C15_Witness ==
  /\ Returned("get_test_case")
  /\ obs.err = <<" ", MARK, "c">>
  /\ result.val = CrashPath

\* p is the beginning of s.
C16_Begins(s, p) == \A k \in 1..Len(p) : k <= Len(s) /\ s[k] = p[k]

\* C16: the name download_latest_corpus builds the corpus URL of is the
\* target name when that begins with "<project>_" and the target name with
\* that prefix in front otherwise; it always begins with the prefix, and
\* qualifying it again changes nothing.
C16_Qualified ==
  obs.corpus_name # None =>
    LET t == obs.target_name
        p == project_name \o <<"_">>
        q == obs.corpus_name
    IN  /\ C16_Begins(t, p) => q = t
        /\ ~C16_Begins(t, p) => q = p \o t
        /\ C16_Begins(q, p)
        /\ QualifiedName(q, project_name) = q

\* The corpus of target "bar_foo" of project "bar" was fetched under the
\* target's own name.
C16_Witness ==
  /\ Returned("download_latest_corpus")
  /\ obs.fetches[CORPUS_DIR] = 1
  /\ obs.target_name = <<"bar", "_", "foo">>
  /\ obs.corpus_name = <<"bar", "_", "foo">>

\* C17 as stated: every invocation of fuzz() attempts the corpus fetch and
\* then starts the fuzzing process exactly once, whether the corpus was
\* obtained or not, and the corpus path is in the command if and only if the
\* corpus was obtained.
C17_AsStated ==
  /\ (Ended /\ Entry = "fuzz") => obs.popen_calls = 1
  /\ (Entry = "fuzz" /\ obs.popen_calls > 0) => obs.popen_calls = 1
  /\ At("fuzz", "communicate") =>
       (obs.command_corpus = {CORPUS_DIR}
          <=> (obs.retrieve = "ok"
                 /\ obs.extract \in {"ok with target", "ok without target"}))

\* C18: when the candidate test case is not on disk, is_reproducible returns
\* False, the runner is never invoked and no file permission changes,
\* whatever the build directory holds.
C18_MissingTestCase ==
  TEST_CASE \notin files =>
    /\ \A d \in Dirs : obs.attempts[d] = 0 /\ obs.isrep[d] \subseteq {FALSE}
    /\ \A b \in Bins : mode[b] = "orig"
    /\ (Ended /\ Entry = "is_reproducible") =>
         (result.kind = "return" /\ result.val = FALSE)

\* is_reproducible returned False for a missing test case and a build
\* directory that exists without the target binary.
C18_Witness ==
  /\ Returned("is_reproducible")
  /\ TEST_CASE \notin files
  /\ BUILD_DIR \in files
  /\ BUILD_BIN \notin files
  /\ obs.isrep[BUILD_DIR] = {FALSE}
  /\ result.val = FALSE

\* C19 as stated: when the baseline archive was fetched and unpacked but
\* holds no target binary, check_reproducibility_and_regression returns
\* False and makes no reproduce attempt against the baseline directory.
C19_AsStated ==
  (Ended /\ Entry = CHECK /\ obs.fetches[BUILD_DIR] = 1
     /\ obs.retrieve = "ok" /\ obs.extract = "ok without target") =>
    /\ result.kind = "return"
    /\ result.val = FALSE
    /\ obs.attempts[BUILD_DIR] = 0

\* C20: in an invocation of fuzz(), a baseline version request or archive
\* fetch comes only after a reproduce attempt against the current build
\* returned a non-zero exit code; at most 20 reproduce attempts are made; and
\* when an artifact is returned, the current build reproduced and either
\* there is no project or a baseline directory was obtained and exactly 10
\* attempts against it all returned zero.
C20_SoundRegression ==
  Entry = "fuzz" =>
    /\ (obs.version_requests > 0 \/ obs.fetches[BUILD_DIR] > 0) =>
         obs.first_nonzero[PR_DIR] # 0
    /\ obs.attempts[PR_DIR] + obs.attempts[BUILD_DIR] <= 20
    /\ (Ended /\ result.kind = "return" /\ result.val # NoneNone) =>
         /\ obs.first_nonzero[PR_DIR] # 0
         /\ \/ project_name = None
            \/ /\ obs.build_ret = {BUILD_DIR}
               /\ obs.attempts[BUILD_DIR] = 10
               /\ obs.first_nonzero[BUILD_DIR] = 0

\* fuzz() of a target with a project returned an artifact after the baseline
\* archive was fetched.
C20_Witness ==
  /\ Returned("fuzz")
  /\ result.val # NoneNone
  /\ project_name # None
  /\ obs.fetches[BUILD_DIR] = 1
  /\ obs.attempts[BUILD_DIR] = 10

====
